---- MODULE Spec2Model ----
(***************************************************************************)
(* Model of the black-hole simulation engine of src/src/main.js (the last  *)
(* DOMContentLoaded handler of the file, lines 399-1176): the parameter    *)
(* object, the canvas measure, the frame loop, the drag controller and the *)
(* localStorage snapshot.                                                  *)
(*                                                                         *)
(* JavaScript numbers are kept as integers in fixed units:                 *)
(*   params.rotation, rotationSlider   1/RotUnit   (halves)                *)
(*   params.rotationSpeed              1/1000 rad/s                        *)
(*   params.timeScale                  1/TsUnit                            *)
(*   params.drag                       1/100                               *)
(*   params.diskAngle                  1/10000000 rad                      *)
(*   devicePixelRatio, ctx.scale       1/DprUnit                           *)
(*   now, lastFrameTime, dt, ...       milliseconds                        *)
(*   params.M, fps                     a record: Fin(v), PosInf or NaN     *)
(* Pointer distances are rounded down to whole pixels (ISqrt).             *)
(***************************************************************************)
EXTENDS Integers, Sequences, FiniteSets, TLC

VARIABLES
    pc,                 \* "boot" before DOMContentLoaded, "second" between its two
                        \* listeners, then "ready", or "threw" when the second threw
    stored,             \* localStorage item 'blackHoleParams'
    params,             \* the parameter object
    rotationSlider,     \* rotationSlider.value (the DOM control)
    isRunning, animationFrameId, lastFrameTime, accumulatedTime,
    fps, frameCount, lastFpsUpdateTime,
    frameSeq,           \* the last handle requestAnimationFrame returned
    pendingFrames,      \* handles of the frame callbacks the host still holds
    isDragging, lastTouchX, lastTouchY,
    canvas,             \* width, height (buffer) and displayWidth, displayHeight
    ctx,                \* the 2D context: its transform
    container,          \* canvas.parentElement: clientWidth, clientHeight
    devicePixelRatio,   \* window.devicePixelRatio
    rect,               \* canvas.getBoundingClientRect(): left, top
    visibilityState,    \* document.visibilityState
    resizeTimer,        \* the deadlines of the pending timers of the resize listener
    orientationTimers,  \* pending setTimeout(resizeCanvas, 300) timers
    now,                \* the host clock (performance.now and frame timestamps)
    lastOp,             \* the handler that ran last
    draws,              \* draw() calls made by the handler that ran last
    measured,           \* host width, height and pixel ratio read by the last resizeCanvas
    prevMeasured,       \* the same of the resizeCanvas call before it
    dt,                 \* the dt the last frame integrated with
    elapsed,            \* currentTime - lastFrameTime as the last frame found them
    lastPointer,        \* the pointer's last position relative to the canvas
    rendered,           \* the picture the last draw() call painted
    storageThrows,      \* the localStorage methods that throw when called
    autoSave,           \* the setTimeout(autoSaveParams, 5000) timers: pending, due
    frameBegin          \* the time the host's current frame began at, while its
                        \* frame callbacks have not run yet; Null otherwise

vars == <<pc, stored, params, rotationSlider, isRunning, animationFrameId,
          lastFrameTime, accumulatedTime, fps, frameCount, lastFpsUpdateTime,
          frameSeq, pendingFrames, isDragging, lastTouchX, lastTouchY,
          canvas, ctx, container, devicePixelRatio, rect, visibilityState,
          resizeTimer, orientationTimers, now, lastOp, draws, measured, prevMeasured, dt,
          elapsed, lastPointer, rendered, storageThrows, autoSave, frameBegin>>

paramVars == <<params, rotationSlider>>
clockVars == <<isRunning, animationFrameId, lastFrameTime, accumulatedTime,
               fps, frameCount, lastFpsUpdateTime, frameSeq, pendingFrames, dt,
               elapsed>>
dragVars == <<isDragging, lastTouchX, lastTouchY, lastPointer>>
viewVars == <<canvas, ctx, measured, prevMeasured>>
hostVars == <<container, devicePixelRatio, rect, visibilityState, storageThrows,
              frameBegin>>
timerVars == <<resizeTimer, orientationTimers, autoSave>>

-----------------------------------------------------------------------------
(* Units and program constants *)

RotUnit == 2
TsUnit == 10
DprUnit == 2
TwoPi == 62831853
DtCap == 100
AutoSaveDelay == 5000
DebounceDelay == 250
\* 2 * G * solarMass / (c * c): metres of Schwarzschild radius per solar mass
RsPerSolarMass == 2953
Undefined == -1
Null == 0

(* Bounds of the model *)
MaxNow == 6500
MaxFrameSeq == 3
MaxM == 4000000
MaxTimers == 1

-----------------------------------------------------------------------------
(* JavaScript values *)

Fin(v) == [k |-> "fin", v |-> v]
PosInf == [k |-> "inf", v |-> 1]
NaN == [k |-> "nan", v |-> 0]

Abs(x) == IF x < 0 THEN -x ELSE x
Min(a, b) == IF a < b THEN a ELSE b
Max(a, b) == IF a > b THEN a ELSE b

\* Math.floor(a / b) for b > 0
FloorDiv(a, b) == a \div b

\* a sum that is not reduced
NoRem(a, m) == a

\* the % operator: the result takes the sign of the dividend
JsRem(a, m) == IF a >= 0 THEN a % m ELSE -((-a) % m)

\* Math.round(a / b) for b > 0: halves round up
RoundDiv(a, b) == (2 * a + b) \div (2 * b)

\* parseInt of a number printed in 1/unit: the fraction is cut off
ParseInt(v, unit) == IF v >= 0 THEN (v \div unit) * unit ELSE -(((-v) \div unit) * unit)

RECURSIVE ISqrtFrom(_, _)
ISqrtFrom(n, r) == IF (r + 1) * (r + 1) > n THEN r ELSE ISqrtFrom(n, r + 1)
\* Math.sqrt, rounded down to a whole number
ISqrt(n) == ISqrtFrom(n, 0)

-----------------------------------------------------------------------------
(* The parameter object *)

DefaultParams ==
    [mass |-> 50, rotation |-> 0, zoom |-> 100,
     rotationSpeed |-> 0, diskAngle |-> 0,
     M |-> Fin(1000000), timeScale |-> TsUnit,
     drag |-> 2, trails |-> TRUE, trailLength |-> 50,
     seed |-> 12345, particles |-> 500]

\* params.rotation * 0.05 rad/s, in 1/1000 rad/s
RotationSpeedOf(rotation) == (rotation * 50) \div RotUnit

\* an update that leaves the derived rotation speed as it was
keepDerivedParams(p) == p

updateDerivedParams(p) == [p EXCEPT !.rotationSpeed = RotationSpeedOf(p.rotation)]

\* a slider mapped to an absolute mass: 1.0e6 * (this.mass / 50)
blackHoleMassAbsolute(p) == Fin((1000000 * p.mass) \div 50)

\* get blackHoleMass: this.M * (this.mass / 50)
blackHoleMass(p) ==
    CASE p.M.k = "nan" -> NaN
      [] p.M.k = "inf" -> IF p.mass = 0 THEN NaN
                          ELSE IF p.mass > 0 THEN p.M ELSE [k |-> "inf", v |-> -(p.M.v)]
      [] OTHER -> Fin((p.M.v * p.mass) \div 50)

\* get schwarzschildRadius: (2 * G * M * solarMass) / (c * c) / 1000, in whole
\* kilometres (M * RsPerSolarMass / 1000, rounded down)
schwarzschildRadius(p) ==
    CASE p.M.k = "nan" -> NaN
      [] p.M.k = "inf" -> p.M
      [] OTHER -> Fin((p.M.v \div 1000) * RsPerSolarMass
                        + ((p.M.v % 1000) * RsPerSolarMass) \div 1000)

\* the products the model can hold as whole solar masses within its bound
MassRepresentable(p) ==
    p.M.k = "fin" => /\ (p.M.v * p.mass) % 50 = 0
                     /\ Abs((p.M.v * p.mass) \div 50) <= MaxM

-----------------------------------------------------------------------------
(* The stored record (localStorage item 'blackHoleParams') *)

Absent == [tag |-> "absent", v |-> Null]
JsonNull == [tag |-> "null", v |-> Null]
Val(x) == [tag |-> "val", v |-> x]

FieldNames == {"mass", "rotation", "zoom", "M", "timeScale", "drag",
               "trails", "trailLength", "seed", "particles"}

NoFields == [f \in FieldNames |-> Absent]
NoItem == [kind |-> "absent", fields |-> NoFields]
Item(r) == [kind |-> "record", fields |-> r]

\* JSON.stringify of a number: NaN and the infinities are written as null
JsonNumber(n) == IF n.k = "fin" THEN Val(n.v) ELSE JsonNull

\* the record saveToStorage builds (paramsToSave); the reset object's extra
\* key rs is undefined there and JSON.stringify leaves it out
paramsToSave(p) ==
    [f \in FieldNames |->
        CASE f = "mass" -> Val(p.mass)
          [] f = "rotation" -> Val(p.rotation)
          [] f = "zoom" -> Val(p.zoom)
          [] f = "M" -> JsonNumber(p.M)
          [] f = "timeScale" -> Val(p.timeScale)
          [] f = "drag" -> Val(p.drag)
          [] f = "trails" -> Val(IF p.trails THEN 1 ELSE 0)
          [] f = "trailLength" -> Val(p.trailLength)
          [] f = "seed" -> Val(p.seed)
          [] f = "particles" -> Val(p.particles)]

\* parsedParams.x with no fallback: an absent field comes out as undefined
ReplaceWith(field, current) == IF field.tag = "val" THEN field.v ELSE Undefined

\* parsedParams.x ?? this.x: null and undefined fall through to this.x
Coalesce(field, current) == IF field.tag = "val" THEN field.v ELSE current

\* params.loadFromStorage: the new parameter object (the item is a record)
loadedParams(p, r) ==
    updateDerivedParams(
        [p EXCEPT !.mass = Coalesce(r["mass"], p.mass),
                  !.rotation = Coalesce(r["rotation"], p.rotation),
                  !.zoom = Coalesce(r["zoom"], p.zoom),
                  !.M = IF r["M"].tag = "val" THEN Fin(r["M"].v) ELSE p.M,
                  !.timeScale = Coalesce(r["timeScale"], p.timeScale),
                  !.drag = Coalesce(r["drag"], p.drag),
                  !.trails = IF r["trails"].tag = "val" THEN r["trails"].v = 1 ELSE p.trails,
                  !.trailLength = Coalesce(r["trailLength"], p.trailLength),
                  !.seed = Coalesce(r["seed"], p.seed),
                  !.particles = Coalesce(r["particles"], p.particles)])

\* an item whose text JSON.parse rejects
Malformed == [kind |-> "malformed", fields |-> NoFields]

\* an exception that no catch clause stops
escapesUncaught(threw) == threw

\* whether an exception thrown inside try { } catch (e) { console.error } leaves
\* the function: the catch clause stops it
escapes(threw) == FALSE

\* whether getItem or JSON.parse throws inside loadFromStorage
loadThrows(st) == "getItem" \in storageThrows \/ st.kind = "malformed"

\* whether loadFromStorage returns true: getItem returned a text and neither
\* getItem nor JSON.parse threw
loadFromStorage(st) == "getItem" \notin storageThrows /\ st.kind = "record"

\* localStorage.removeItem inside try/catch
removedItem(st) == IF "removeItem" \in storageThrows THEN st ELSE NoItem

\* a save that ignores the parameters
savedNothing(st, p) == st

\* saveToStorage: setItem(JSON.stringify(paramsToSave)) inside try/catch
saveToStorage(st, p) == IF "setItem" \in storageThrows THEN st ELSE Item(paramsToSave(p))

\* the value a slider control reports after its value was assigned from script:
\* the text as assigned, or the text the control's own sanitisation (range:
\* clamp to [lo, hi], round to the step 1) makes of it
SliderAssigned(v, lo, hi) ==
    {v, Min(hi * RotUnit, Max(lo * RotUnit, RoundDiv(v, RotUnit) * RotUnit))}

-----------------------------------------------------------------------------
(* The canvas measure and the renderer *)

getDevicePixelRatio == IF devicePixelRatio = 0 THEN DprUnit ELSE devicePixelRatio

Identity == DprUnit
\* ctx.scale(s, s) applied to a transform of scale t
Scaled(t, s) == (t * s) \div DprUnit

\* a measure that compares the buffer size, not the stored logical size
sizeChangedByBuffer ==
    \/ canvas.width # container.clientWidth
    \/ canvas.height # container.clientHeight

\* resizeCanvas: the canvas, the context and the number of redraws it leaves
sizeChanged ==
    \/ canvas.displayWidth # container.clientWidth
    \/ canvas.displayHeight # container.clientHeight

measuredCanvas ==
    [width |-> FloorDiv(container.clientWidth * getDevicePixelRatio, DprUnit),
     height |-> FloorDiv(container.clientHeight * getDevicePixelRatio, DprUnit),
     displayWidth |-> container.clientWidth,
     displayHeight |-> container.clientHeight]

\* setTransform(1, 0, 0, 1, 0, 0) then scale(dpr, dpr)
measuredTransform == Scaled(Identity, getDevicePixelRatio)

resizedCanvas == IF sizeChanged THEN measuredCanvas ELSE canvas
resizedCtx == IF sizeChanged THEN [ctx EXCEPT !.scale = measuredTransform] ELSE ctx
resizeDraws == IF sizeChanged THEN 1 ELSE 0

\* a picture whose radius follows the physical mass M (1.0e6 solar masses
\* drawn as the slider's 50)
drawPhysical(p, cv) ==
    [width |-> IF cv.displayWidth \in {Undefined, 0} THEN cv.width ELSE cv.displayWidth,
     height |-> IF cv.displayHeight \in {Undefined, 0} THEN cv.height ELSE cv.displayHeight,
     radius |-> IF p.M.k = "fin" THEN (p.M.v \div 20000) * p.zoom ELSE 0,
     disk |-> p.rotation > 0,
     angle |-> IF p.rotation > 0 THEN p.diskAngle ELSE 0]

\* draw(): the picture it paints for the parameters p on the canvas cv: the
\* cleared rectangle (displayWidth || width by displayHeight || height), the
\* radius mass * zoom / 100 (in 1/100) and the disk, drawn at diskAngle when
\* rotation > 0
draw(p, cv) ==
    [width |-> IF cv.displayWidth \in {Undefined, 0} THEN cv.width ELSE cv.displayWidth,
     height |-> IF cv.displayHeight \in {Undefined, 0} THEN cv.height ELSE cv.displayHeight,
     radius |-> p.mass * p.zoom,
     disk |-> p.rotation > 0,
     angle |-> IF p.rotation > 0 THEN p.diskAngle ELSE 0]

\* the drawing state of the context: its transform (the scale of the measure,
\* an offset in logical pixels and an angle) and the stack of saved transforms
drawingState(c) ==
    [transform |-> [scale |-> c.scale, dx |-> 0, dy |-> 0, angle |-> 0],
     stack |-> <<>>]

ctxSave(c) == [c EXCEPT !.stack = Append(c.stack, c.transform)]
ctxTranslate(c, x, y) == [c EXCEPT !.transform.dx = @ + x, !.transform.dy = @ + y]
ctxRotate(c, a) == [c EXCEPT !.transform.angle = @ + a]
\* a restore that pops nothing
ctxKeep(c) == c
ctxRestore(c) ==
    IF c.stack = <<>> THEN c
    ELSE [transform |-> c.stack[Len(c.stack)],
          stack |-> SubSeq(c.stack, 1, Len(c.stack) - 1)]

\* draw(): the drawing state it leaves behind, started in the state c. The
\* disk is drawn between save() and restore(), translated to the centre
\* (displayWidth / 2, displayHeight / 2) and rotated by diskAngle
drawTransform(c, p, cv) ==
    IF p.rotation > 0
    THEN ctxRestore(ctxRotate(ctxTranslate(ctxSave(c), draw(p, cv).width \div 2,
                                           draw(p, cv).height \div 2),
                              p.diskAngle))
    ELSE c

\* no draw() call was made yet
NoPicture == [width |-> Undefined, height |-> Undefined, radius |-> 0,
              disk |-> FALSE, angle |-> 0]

\* a handler made n draw() calls, the last of them with the parameters p on
\* the canvas cv
Draws(n, p, cv) ==
    /\ draws' = n
    /\ rendered' = IF n > 0 THEN draw(p, cv) ELSE rendered

\* what resizeCanvas does to the canvas, the context and the draw count
resizeCanvas ==
    /\ canvas' = resizedCanvas
    /\ ctx' = resizedCtx
    /\ measured' = [w |-> container.clientWidth, h |-> container.clientHeight,
                    dpr |-> getDevicePixelRatio]
    /\ prevMeasured' = measured

-----------------------------------------------------------------------------
(* Inputs *)

LoadTime == 1000
HostSizes == {[clientWidth |-> 800, clientHeight |-> 600],
              [clientWidth |-> 801, clientHeight |-> 600],
              [clientWidth |-> 375, clientHeight |-> 667],
              [clientWidth |-> 0, clientHeight |-> 0]}
PixelRatios == {0, DprUnit, 3, 2 * DprUnit}
Rects == {[left |-> 0, top |-> 0], [left |-> 40, top |-> 30]}

-----------------------------------------------------------------------------
(* Initial state: the declarations, before the DOMContentLoaded handler *)

StorageMethods == {"getItem", "setItem", "removeItem"}

InitFrom(models, items, sizes, ratios, rects, failures) ==
    /\ pc = "boot"
    /\ storageThrows \in failures
    /\ frameBegin = Null
    /\ autoSave = [pending |-> 0, due |-> Undefined]
    /\ stored \in items
    /\ params \in models
    /\ rotationSlider = 0
    /\ isRunning = FALSE
    /\ animationFrameId = Null
    /\ lastFrameTime = 0
    /\ accumulatedTime = 0
    /\ fps = Fin(0)
    /\ frameCount = 0
    /\ lastFpsUpdateTime = 0
    /\ frameSeq = 0
    /\ pendingFrames = {}
    /\ isDragging = FALSE
    /\ lastTouchX = Undefined
    /\ lastTouchY = Undefined
    /\ canvas = [width |-> 300, height |-> 150,
                 displayWidth |-> Undefined, displayHeight |-> Undefined]
    /\ ctx = [scale |-> Identity]
    /\ container \in sizes
    /\ devicePixelRatio \in ratios
    /\ rect \in rects
    /\ visibilityState = "visible"
    /\ resizeTimer = {}
    /\ orientationTimers = 0
    /\ now = LoadTime
    /\ lastOp = "none"
    /\ draws = 0
    /\ measured = [w |-> Undefined, h |-> Undefined, dpr |-> Undefined]
    /\ prevMeasured = [w |-> Undefined, h |-> Undefined, dpr |-> Undefined]
    /\ dt = 0
    /\ elapsed = 0
    /\ lastPointer = [x |-> Undefined, y |-> Undefined]
    /\ rendered = NoPicture

\* the page as its declarations leave it
InitAll(items, sizes, ratios, rects, failures) ==
    InitFrom({DefaultParams}, items, sizes, ratios, rects, failures)

\* a page whose storage works
InitWith(items, sizes, ratios, rects) == InitAll(items, sizes, ratios, rects, {{}})

-----------------------------------------------------------------------------
(* DOMContentLoaded.  The file registers two listeners (2-395, 398-1176)   *)
(* on the same canvas.  Each calls resizeCanvas() (74, 479) before its      *)
(* `const DEBUG_MODE` (110, 515) is evaluated, and resizeCanvas reads       *)
(* DEBUG_MODE (58, 463) when the size it measures differs from the one      *)
(* stored on the canvas.                                                    *)

Listener1Measure == 74
Listener1DebugMode == 110
Listener2Measure == 479
Listener2DebugMode == 515

\* a read, by code called from line readFrom, of a const declared at the later
\* line declaredAt of the same function body: a ReferenceError
inTemporalDeadZone(readFrom, declaredAt) == readFrom < declaredAt

\* the first listener: the canvas carries no measured size yet, so resizeCanvas
\* sizes it (43-56) and throws at 58; nothing after line 74 runs
firstListener ==
    /\ pc = "boot"
    /\ sizeChanged
    /\ inTemporalDeadZone(Listener1Measure, Listener1DebugMode)
    /\ pc' = "second"
    /\ resizeCanvas
    /\ lastOp' = "listener1"
    /\ Draws(0, params, canvas')
    /\ UNCHANGED <<stored, paramVars, clockVars, dragVars, hostVars, timerVars, now>>

\* the second listener from line 482 on: the listeners it registers, the load
\* (1144-1157), the first draw (1166) and the first autosave timer (1175)
startupAfterMeasure ==
    /\ pc' = IF escapes(loadThrows(stored)) THEN "threw" ELSE "ready"
    /\ params' = IF loadFromStorage(stored)
                 THEN loadedParams(params, stored.fields) ELSE params
    /\ rotationSlider' \in IF loadFromStorage(stored)
                           THEN SliderAssigned(params'.rotation, 0, 100)
                           ELSE {rotationSlider}
    /\ Draws(1, params', canvas')
    /\ lastOp' = "startup"
    /\ autoSave' = [pending |-> autoSave.pending + 1, due |-> now + AutoSaveDelay]
    /\ UNCHANGED <<stored, clockVars, dragVars, hostVars, resizeTimer, orientationTimers,
                   now>>

\* the second listener: its resizeCanvas() throws at 463 when the container
\* does not measure what the first listener stored, and is a no-op otherwise
secondListener ==
    /\ pc = "second"
    /\ resizeCanvas
    /\ IF sizeChanged /\ inTemporalDeadZone(Listener2Measure, Listener2DebugMode)
       THEN /\ pc' = "threw"
            /\ lastOp' = "listener2"
            /\ Draws(0, params, canvas')
            /\ UNCHANGED <<stored, paramVars, clockVars, dragVars, hostVars, timerVars,
                           now>>
       ELSE startupAfterMeasure

\* the container measures differently for the second listener than it did for
\* the first, which gave the canvas a size in between
LayoutBetweenListeners ==
    /\ pc = "second"
    /\ \E size \in HostSizes : size # container /\ container' = size
    /\ UNCHANGED <<pc, stored, paramVars, clockVars, dragVars, viewVars,
                   devicePixelRatio, rect, visibilityState, storageThrows, frameBegin, timerVars,
                   now, lastOp, draws, rendered>>

\* both listeners in one step, for a container that measures the same for
\* both: the first sizes the canvas and throws, the second runs to its end
Startup ==
    /\ pc = "boot"
    /\ canvas' = resizedCanvas
    /\ ctx' = resizedCtx
    /\ measured' = [w |-> container.clientWidth, h |-> container.clientHeight,
                    dpr |-> getDevicePixelRatio]
    /\ prevMeasured' = measured'
    /\ startupAfterMeasure

-----------------------------------------------------------------------------
(* Host layout and the listeners that measure the canvas *)

\* the host lays the page out again: the container's size or the pixel ratio change
HostLayout ==
    /\ pc = "ready"
    /\ \E size \in HostSizes, ratio \in PixelRatios :
          /\ <<size, ratio>> # <<container, devicePixelRatio>>
          /\ container' = size
          /\ devicePixelRatio' = ratio
    /\ UNCHANGED <<pc, stored, paramVars, clockVars, dragVars, viewVars, rect,
                   visibilityState, storageThrows, frameBegin, timerVars, now, lastOp, draws,
                   rendered>>

\* a listener that arms a timer on every event and clears none
undebounced(timers, due) == timers \cup {due}

\* the function debounce returns: clearTimeout(timeout), then
\* timeout = setTimeout(..., wait)
debounce(timers, due) == {due}

\* window 'resize': debounce(resizeCanvas, 250) restarts its timer
WindowResize ==
    /\ pc = "ready"
    /\ resizeTimer' = debounce(resizeTimer, now + DebounceDelay)
    /\ lastOp' = "resize"
    /\ Draws(0, params, canvas)
    /\ UNCHANGED <<pc, stored, paramVars, clockVars, dragVars, viewVars, hostVars,
                   orientationTimers, autoSave, now>>

\* the callback of the debounce timer armed for the time due
ResizeTimerCallback(due) ==
    /\ pc = "ready"
    /\ due \in resizeTimer
    /\ resizeTimer' = resizeTimer \ {due}
    /\ resizeCanvas
    /\ Draws(resizeDraws, params, canvas')
    /\ lastOp' = "measure"
    /\ UNCHANGED <<pc, stored, paramVars, clockVars, dragVars, hostVars,
                   orientationTimers, autoSave, now>>

\* the debounce timer fires, at a time the specification leaves open
ResizeTimerFires == \E due \in resizeTimer : ResizeTimerCallback(due)

\* the debounce timer fires when its delay has passed
ResizeTimerDue == \E due \in resizeTimer : now = due /\ ResizeTimerCallback(due)

\* window 'orientationchange': setTimeout(resizeCanvas, 300)
handleOrientationChange ==
    /\ pc = "ready"
    /\ orientationTimers < MaxTimers
    /\ orientationTimers' = orientationTimers + 1
    /\ lastOp' = "orientationchange"
    /\ Draws(0, params, canvas)
    /\ UNCHANGED <<pc, stored, paramVars, clockVars, dragVars, viewVars, hostVars,
                   resizeTimer, autoSave, now>>

OrientationTimerFires ==
    /\ pc = "ready"
    /\ orientationTimers > 0
    /\ orientationTimers' = orientationTimers - 1
    /\ resizeCanvas
    /\ Draws(resizeDraws, params, canvas')
    /\ lastOp' = "measure"
    /\ UNCHANGED <<pc, stored, paramVars, clockVars, dragVars, hostVars,
                   resizeTimer, autoSave, now>>

\* document 'visibilitychange': measure when the page became visible
VisibilityChange ==
    /\ pc = "ready"
    /\ visibilityState' = IF visibilityState = "visible" THEN "hidden" ELSE "visible"
    /\ IF visibilityState' = "visible"
       THEN resizeCanvas /\ Draws(resizeDraws, params, canvas') /\ lastOp' = "measure"
       ELSE UNCHANGED viewVars /\ Draws(0, params, canvas) /\ lastOp' = "hidden"
    /\ UNCHANGED <<pc, stored, paramVars, clockVars, dragVars, container,
                   devicePixelRatio, rect, storageThrows, frameBegin, timerVars, now>>

NextViewport ==
    \/ Startup
    \/ HostLayout
    \/ WindowResize
    \/ ResizeTimerFires
    \/ handleOrientationChange
    \/ OrientationTimerFires
    \/ VisibilityChange

InitViewport == InitWith({NoItem}, HostSizes, PixelRatios, {[left |-> 0, top |-> 0]})

SpecViewport == InitViewport /\ [][NextViewport]_vars

\* the time between two events of a burst of resize events, and the full delay
DebounceGaps == {50, 100, DebounceDelay}

\* time passes up to the next deadline of the resize listener
Wait(gap) ==
    /\ pc = "ready"
    /\ \A due \in resizeTimer : now + gap <= due
    /\ resizeTimer = {} => now + gap <= MaxNow
    /\ now' = now + gap
    /\ UNCHANGED <<pc, stored, paramVars, clockVars, dragVars, viewVars, hostVars,
                   timerVars, lastOp, draws, rendered>>

WaitForTimer == \E gap \in DebounceGaps : Wait(gap)

\* resize events of the observed period
ResizeEvent == now <= MaxNow /\ WindowResize

NextDebounce ==
    \/ Startup
    \/ ResizeEvent
    \/ WaitForTimer
    \/ ResizeTimerDue

InitDebounce == InitWith({NoItem}, {[clientWidth |-> 800, clientHeight |-> 600]},
                         {DprUnit}, {[left |-> 0, top |-> 0]})

\* time passes and the event loop runs a timer that is due
SpecDebounce ==
    /\ InitDebounce
    /\ [][NextDebounce]_vars
    /\ WF_vars(WaitForTimer)
    /\ WF_vars(ResizeTimerDue)

-----------------------------------------------------------------------------
(* The controls *)

MassInputs == {0, 50, 100}
RotationInputs == {0, 10, 100}
ZoomInputs == {10, 100, 200}
\* what parseFloat makes of the text of the actual-mass field
ActualMassInputs == {NaN, PosInf, Fin(-5), Fin(0), Fin(2000000)}
TimeScaleInputs == {5, TsUnit}
DragInputs == {2, 50}
ParticlesInputs == {500, 1000}
TrailLengthInputs == {50, 100}
SeedInputs == {12345, 7}

\* a handler of a control ran: what every one of them leaves alone
Handled(op, n) ==
    /\ pc = "ready"
    /\ lastOp' = op
    /\ Draws(n, params', canvas)
    /\ UNCHANGED <<pc, stored, clockVars, dragVars, viewVars, hostVars, timerVars, now>>

\* massSlider 'input'
MassSliderInput(v) ==
    /\ MassRepresentable([params EXCEPT !.mass = v])
    /\ params' = [params EXCEPT !.mass = v,
                                !.M = blackHoleMass([params EXCEPT !.mass = v])]
    /\ UNCHANGED rotationSlider
    /\ Handled("mass", 1)

\* rotationSlider 'input'
RotationSliderInput(v) ==
    /\ rotationSlider' = v * RotUnit
    /\ params' = updateDerivedParams(
                    [params EXCEPT !.rotation = ParseInt(rotationSlider', RotUnit)])
    /\ Handled("rotation", 1)

\* zoomSlider 'input'
ZoomSliderInput(v) ==
    /\ params' = [params EXCEPT !.zoom = v]
    /\ UNCHANGED rotationSlider
    /\ Handled("zoom", 1)

\* the validation of the actual-mass field: isNaN(newMass) || newMass <= 0
InvalidMass(m) == m.k = "nan" \/ m.v <= 0

\* the mass the actual-mass handler stores for the parsed text m
acceptedMass(m) == IF InvalidMass(m) THEN Fin(1000000) ELSE m

\* actualMassInput 'input'
ActualMassInput(m) ==
    /\ params' = [params EXCEPT !.M = acceptedMass(m)]
    /\ UNCHANGED rotationSlider
    /\ Handled("actualMass", 1)

TimeScaleInput(v) ==
    /\ params' = [params EXCEPT !.timeScale = v]
    /\ UNCHANGED rotationSlider
    /\ Handled("timeScale", 0)

DragInput(v) ==
    /\ params' = [params EXCEPT !.drag = v]
    /\ UNCHANGED rotationSlider
    /\ Handled("drag", 0)

ParticlesInput(v) ==
    /\ params' = [params EXCEPT !.particles = v]
    /\ UNCHANGED rotationSlider
    /\ Handled("particles", 0)

TrailsChange(b) ==
    /\ params' = [params EXCEPT !.trails = b]
    /\ UNCHANGED rotationSlider
    /\ Handled("trails", 0)

TrailLengthInput(v) ==
    /\ params' = [params EXCEPT !.trailLength = v]
    /\ UNCHANGED rotationSlider
    /\ Handled("trailLength", 0)

SeedChange(v) ==
    /\ params' = [params EXCEPT !.seed = v]
    /\ UNCHANGED rotationSlider
    /\ Handled("seed", 0)

\* a frame time left as the last frame set it
staleFrameTime == lastFrameTime

\* performance.now()
performanceNow == now

\* a reset object that carries the disk angle over
ResetParamsKeepingAngle == [DefaultParams EXCEPT !.diskAngle = params.diskAngle]

\* the object literal resetSimulation assigns to params
ResetParams ==
    [mass |-> 50, rotation |-> 0, zoom |-> 100,
     rotationSpeed |-> 0, diskAngle |-> 0,
     M |-> Fin(1000000), timeScale |-> TsUnit,
     drag |-> 2, trails |-> TRUE, trailLength |-> 50,
     seed |-> 12345, particles |-> 500]

\* resetButton 'click'
resetSimulation ==
    /\ pc = "ready"
    /\ rotationSlider' = 0
    /\ params' = ResetParams
    /\ lastFrameTime' = performanceNow
    /\ accumulatedTime' = 0
    /\ frameCount' = 0
    /\ stored' = removedItem(stored)
    /\ lastOp' = "reset"
    /\ Draws(IF escapes("removeItem" \in storageThrows) THEN 0 ELSE 1, params', canvas)
    /\ UNCHANGED <<pc, isRunning, animationFrameId, fps, lastFpsUpdateTime, frameSeq,
                   pendingFrames, dt, elapsed, dragVars, viewVars, hostVars, timerVars,
                   now>>

BasicControls ==
    \/ \E v \in MassInputs : MassSliderInput(v)
    \/ \E v \in RotationInputs : RotationSliderInput(v)
    \/ \E v \in ZoomInputs : ZoomSliderInput(v)
    \/ \E m \in ActualMassInputs : ActualMassInput(m)
    \/ \E v \in TimeScaleInputs : TimeScaleInput(v)

OtherControls ==
    \/ \E v \in DragInputs : DragInput(v)
    \/ \E v \in ParticlesInputs : ParticlesInput(v)
    \/ \E b \in BOOLEAN : TrailsChange(b)
    \/ \E v \in TrailLengthInputs : TrailLengthInput(v)
    \/ \E v \in SeedInputs : SeedChange(v)

\* stored records the page may find at start
OneField(f, x) == Item([NoFields EXCEPT ![f] = x])
StartItems ==
    {NoItem,
     OneField("mass", Val(70)),
     Item([NoFields EXCEPT !["rotation"] = Val(10 * RotUnit),
                           !["timeScale"] = Val(-TsUnit)]),
     Item([NoFields EXCEPT !["rotation"] = Val(301), !["zoom"] = Val(500)])}
\* records that set one field each, to a value that is not its default
Sample(f) ==
    CASE f = "mass" -> 70
      [] f = "rotation" -> 10 * RotUnit
      [] f = "zoom" -> 150
      [] f = "M" -> 2000000
      [] f = "timeScale" -> 2 * TsUnit
      [] f = "drag" -> 50
      [] f = "trails" -> 0
      [] f = "trailLength" -> 100
      [] f = "seed" -> 7
      [] f = "particles" -> 1000
FieldItems == {OneField(f, Val(Sample(f))) : f \in FieldNames}
\* records with at most two fields present, each null or a value
FieldValues(f) == {Absent, JsonNull, Val(Sample(f))}
RestoreItems ==
    {NoItem} \cup
    UNION {{Item([NoFields EXCEPT ![fg[1]] = a, ![fg[2]] = b]) :
                a \in FieldValues(fg[1]), b \in FieldValues(fg[2])} :
           fg \in FieldNames \X FieldNames}
\* records a page of this program can have written itself
SavedItems ==
    {NoItem,
     Item(paramsToSave([DefaultParams EXCEPT !.rotation = 10 * RotUnit,
                                             !.M = PosInf, !.trails = FALSE]))}

NextParams ==
    \/ Startup
    \/ BasicControls
    \/ resetSimulation

\* the page's start alone, over the stored records it may find
InitRestore == InitWith(RestoreItems, {[clientWidth |-> 800, clientHeight |-> 600]},
                        {DprUnit}, {[left |-> 0, top |-> 0]})

SpecRestore == InitRestore /\ [][Startup]_vars

\* DOMContentLoaded, listener by listener
NextStartup ==
    \/ firstListener
    \/ LayoutBetweenListeners
    \/ secondListener

InitStartup == InitWith(StartItems, HostSizes, PixelRatios, {[left |-> 0, top |-> 0]})

SpecStartup == InitStartup /\ [][NextStartup]_vars

InitParams == InitWith(StartItems, {[clientWidth |-> 800, clientHeight |-> 600]},
                       {DprUnit}, {[left |-> 0, top |-> 0]})

SpecParams == InitParams /\ [][NextParams]_vars

-----------------------------------------------------------------------------
(* The frame loop *)

FrameGaps == {16, 5000}
PauseGap == 5000

\* Math.min((currentTime - lastFrameTime) / 1000, 0.1), in milliseconds
UncappedDt(gap) == gap
CappedDt(gap) == Min(gap, DtCap)

\* a frame rate that is the number of frames counted
FpsOfCount(count, acc) == Fin(count)

\* Math.round(frameCount / accumulatedTime), accumulatedTime in milliseconds
FpsOf(count, acc) ==
    IF acc = 0 THEN (IF count = 0 THEN NaN ELSE PosInf)
    ELSE IF acc > 0 THEN Fin(RoundDiv(count * 1000, acc))
    ELSE Fin(-((2 * count * 1000 + (-acc) - 1) \div (2 * (-acc))))

\* a frame callback the host keeps although it was cancelled
keepAnimationFrame(id) == pendingFrames

\* cancelAnimationFrame(id): the callbacks the host still holds
cancelAnimationFrame(id) == pendingFrames \ {id}

\* an integration step that leaves the parameter object as it was
skipSimulation(p, d) == p

\* updateSimulation(dt): the parameter object after one integration step
updateSimulation(p, d) ==
    LET q == updateDerivedParams(p)
        scaledDt == d * q.timeScale
    IN [q EXCEPT !.diskAngle = JsRem(q.diskAngle + q.rotationSpeed * scaledDt, TwoPi)]

\* updateSimulation(d) applied once to a parameter object
Integrate(d) ==
    /\ lastOp = "none"
    /\ params' = updateSimulation(params, d)
    /\ dt' = d
    /\ lastOp' = "integrate"
    /\ UNCHANGED <<pc, stored, rotationSlider, isRunning, animationFrameId, lastFrameTime,
                   accumulatedTime, fps, frameCount, lastFpsUpdateTime, frameSeq,
                   pendingFrames, elapsed, dragVars, viewVars, hostVars, timerVars, now,
                   draws, rendered>>

\* parameter objects of the declared types: rotation in [0, 100], a rotation
\* speed left by an earlier rotation, an angle in [0, 2 pi), a time scale above 0
IntegratorModels ==
    {[DefaultParams EXCEPT !.rotation = r, !.rotationSpeed = s, !.diskAngle = a,
                           !.timeScale = t, !.mass = m] :
        r \in {0, RotUnit, 10 * RotUnit, 100 * RotUnit}, s \in {0, 500},
        a \in {0, 10000000, TwoPi - 1}, t \in {1, TsUnit, 2 * TsUnit}, m \in {50, 70}}
\* the dt of a frame, in milliseconds
IntegratorSteps == {0, 16, DtCap}

InitIntegrate == InitFrom(IntegratorModels, {NoItem},
                          {[clientWidth |-> 800, clientHeight |-> 600]},
                          {DprUnit}, {[left |-> 0, top |-> 0]}, {{}})

SpecIntegrate == InitIntegrate /\ [][\E d \in IntegratorSteps : Integrate(d)]_vars

\* startPauseButton 'click'
\* a request the host drops
droppedFrame(frames, id) == frames

\* requestAnimationFrame(animate): the callback is pending under the handle id
requestAnimationFrame(frames, id) == frames \cup {id}

toggleSimulation ==
    /\ pc = "ready"
    /\ isRunning \/ frameSeq < MaxFrameSeq
    /\ isRunning' = ~isRunning
    /\ IF isRunning'
       THEN /\ lastFrameTime' = performanceNow
            /\ frameSeq' = frameSeq + 1
            /\ animationFrameId' = frameSeq'
            /\ pendingFrames' = requestAnimationFrame(pendingFrames, frameSeq')
       ELSE /\ pendingFrames' = IF animationFrameId # Null
                                THEN cancelAnimationFrame(animationFrameId)
                                ELSE pendingFrames
            /\ animationFrameId' = Null
            /\ UNCHANGED <<lastFrameTime, frameSeq>>
    /\ lastOp' = "toggle"
    /\ Draws(0, params, canvas)
    /\ UNCHANGED <<pc, stored, paramVars, accumulatedTime, fps, frameCount,
                   lastFpsUpdateTime, dt, elapsed, dragVars, viewVars, hostVars,
                   timerVars, now>>

\* animate(currentTime), run by the host for the handle id: what it does to
\* the engine's state
animateBody(id, currentTime) ==
    LET seeded == IF lastFrameTime = 0 THEN currentTime ELSE lastFrameTime
        d == CappedDt(currentTime - seeded)
        count == frameCount + 1
        acc == accumulatedTime + d
        second == currentTime - lastFpsUpdateTime > 1000
    IN
    /\ pc = "ready"
    /\ id \in pendingFrames
    /\ frameSeq < MaxFrameSeq
    /\ elapsed' = currentTime - seeded
    /\ dt' = d
    /\ lastFrameTime' = currentTime
    /\ fps' = IF second THEN FpsOf(count, acc) ELSE fps
    /\ frameCount' = IF second THEN 0 ELSE count
    /\ accumulatedTime' = IF second THEN 0 ELSE acc
    /\ lastFpsUpdateTime' = IF second THEN currentTime ELSE lastFpsUpdateTime
    /\ params' = updateSimulation(params, d)
    /\ Draws(1, params', canvas)
    /\ IF isRunning
       THEN /\ frameSeq' = frameSeq + 1
            /\ animationFrameId' = frameSeq'
            /\ pendingFrames' = requestAnimationFrame(pendingFrames \ {id}, frameSeq')
       ELSE /\ pendingFrames' = pendingFrames \ {id}
            /\ UNCHANGED <<frameSeq, animationFrameId>>
    /\ lastOp' = "animate"
    /\ UNCHANGED <<pc, stored, rotationSlider, isRunning, dragVars, viewVars, timerVars>>

\* the frame callback run at the very time of its timestamp
animate(id, currentTime) ==
    /\ animateBody(id, currentTime)
    /\ now' = currentTime
    /\ UNCHANGED hostVars

Frame == \E id \in pendingFrames, gap \in FrameGaps : animate(id, now + gap)

\* time passes with no handler running
Elapse ==
    /\ pc = "ready"
    /\ now + PauseGap <= MaxNow
    /\ now' = now + PauseGap
    /\ UNCHANGED <<pc, stored, paramVars, clockVars, dragVars, viewVars, hostVars,
                   timerVars, lastOp, draws, rendered>>

NextClock ==
    \/ Startup
    \/ \E v \in RotationInputs : RotationSliderInput(v)
    \/ \E v \in TimeScaleInputs : TimeScaleInput(v)
    \/ toggleSimulation
    \/ Frame
    \/ Elapse
    \/ resetSimulation

InitClock == InitWith(StartItems \cup FieldItems, {[clientWidth |-> 800, clientHeight |-> 600]},
                      {DprUnit}, {[left |-> 0, top |-> 0]})

SpecClock == InitClock /\ [][NextClock]_vars

\* the frame loop alone, started from the defaults or from a stored rotation
NextLoop ==
    \/ Startup
    \/ \E v \in RotationInputs : RotationSliderInput(v)
    \/ toggleSimulation
    \/ Frame
    \/ Elapse
    \/ resetSimulation

InitLoop == InitWith({NoItem, OneField("rotation", Val(Sample("rotation")))},
                     {[clientWidth |-> 800, clientHeight |-> 600]},
                     {DprUnit, 2 * DprUnit}, {[left |-> 0, top |-> 0]})

SpecLoop == InitLoop /\ [][NextLoop]_vars

\* The host's frames.  A frame begins at a time that becomes the timestamp of
\* the frame callbacks it runs; handlers of events delivered in the frame run
\* after it began and before its callbacks, and read a later performance.now().
FramePeriod == 16
FrameLead == 4
FrameClockEnd == LoadTime + 4 * FramePeriod

BeginFrame ==
    /\ pc = "ready"
    /\ frameBegin = Null
    /\ now + FramePeriod <= FrameClockEnd
    /\ now' = now + FramePeriod
    /\ frameBegin' = now'
    /\ UNCHANGED <<pc, stored, paramVars, clockVars, dragVars, viewVars, container,
                   devicePixelRatio, rect, visibilityState, storageThrows, timerVars,
                   lastOp, draws, rendered>>

\* time passes between the begin of the frame and the handlers run in it
TimeInFrame ==
    /\ pc = "ready"
    /\ frameBegin = now
    /\ now' = now + FrameLead
    /\ UNCHANGED <<pc, stored, paramVars, clockVars, dragVars, viewVars, hostVars,
                   timerVars, lastOp, draws, rendered>>

\* the frame's callbacks: animate gets the time the frame began at
RunFrameCallback ==
    /\ frameBegin # Null
    /\ \E id \in pendingFrames : animateBody(id, frameBegin)
    /\ frameBegin' = Null
    /\ UNCHANGED <<now, container, devicePixelRatio, rect, visibilityState,
                   storageThrows>>

\* a frame with no callback to run
EndFrame ==
    /\ pc = "ready"
    /\ frameBegin # Null
    /\ pendingFrames = {}
    /\ frameBegin' = Null
    /\ UNCHANGED <<pc, stored, paramVars, clockVars, dragVars, viewVars, container,
                   devicePixelRatio, rect, visibilityState, storageThrows, timerVars,
                   now, lastOp, draws, rendered>>

NextFrameClock ==
    \/ Startup
    \/ RotationSliderInput(10)
    \/ toggleSimulation
    \/ resetSimulation
    \/ BeginFrame
    \/ TimeInFrame
    \/ RunFrameCallback
    \/ EndFrame

InitFrameClock == InitWith({NoItem}, {[clientWidth |-> 800, clientHeight |-> 600]},
                           {DprUnit}, {[left |-> 0, top |-> 0]})

SpecFrameClock == InitFrameClock /\ [][NextFrameClock]_vars

-----------------------------------------------------------------------------
(* The autosave timer *)

\* the host runs autoSaveParams at the time currentTime: it saves while running
\* and arms the next timer
autoSaveParams(currentTime) ==
    /\ pc = "ready"
    /\ autoSave.pending > 0
    /\ currentTime >= autoSave.due
    /\ currentTime <= MaxNow
    /\ now' = currentTime
    /\ stored' = IF isRunning THEN saveToStorage(stored, params) ELSE stored
    /\ autoSave' = IF escapes(isRunning /\ "setItem" \in storageThrows)
                   THEN [autoSave EXCEPT !.pending = @ - 1]
                   ELSE [pending |-> (autoSave.pending - 1) + 1,
                         due |-> currentTime + AutoSaveDelay]
    /\ lastOp' = "autosave"
    /\ Draws(0, params, canvas)
    /\ UNCHANGED <<pc, paramVars, clockVars, dragVars, viewVars, hostVars, resizeTimer,
                   orientationTimers>>

\* the timer fires when it is due, or later when the host is busy
AutoSaveFires == \E late \in {0, 16} : autoSaveParams(Max(now, autoSave.due) + late)

\* the page with a storage that may fail: the load, the save and the removal
NextStorage ==
    \/ Startup
    \/ \E v \in RotationInputs : RotationSliderInput(v)
    \/ toggleSimulation
    \/ \E id \in pendingFrames : animate(id, now + 16)
    \/ AutoSaveFires
    \/ resetSimulation

InitStorage ==
    InitAll({NoItem, Malformed, OneField("mass", Val(Sample("mass")))},
            {[clientWidth |-> 800, clientHeight |-> 600]},
            {DprUnit}, {[left |-> 0, top |-> 0]}, SUBSET StorageMethods)

SpecStorage == InitStorage /\ [][NextStorage]_vars

-----------------------------------------------------------------------------
(* The drag controller *)

\* pointer positions in client (viewport) coordinates
Pointers == {[x |-> 150, y |-> 130], [x |-> 151, y |-> 130], [x |-> 160, y |-> 130],
             [x |-> 140, y |-> 130], [x |-> 153, y |-> 134]}

\* Math.sqrt(dx * dx + dy * dy)
moveAmountOf(dx, dy) == ISqrt(dx * dx + dy * dy)

\* moveAmount * 0.5
rotationChangeOf(moveAmount) == (moveAmount * RotUnit) \div 2

\* Math.min(100, Math.max(0, base + (dx > 0 ? rotationChange : -rotationChange)))
newRotationOf(base, dx, rotationChange) ==
    Min(100 * RotUnit, Max(0, base + (IF dx > 0 THEN rotationChange ELSE -rotationChange)))

\* mousedown, touchstart
handleInteractionStart(clientX, clientY) ==
    /\ pc = "ready"
    /\ isDragging' = TRUE
    /\ lastTouchX' = clientX
    /\ lastTouchY' = clientY
    /\ lastPointer' = [x |-> clientX - rect.left, y |-> clientY - rect.top]
    /\ lastOp' = "dragstart"
    /\ Draws(0, params, canvas)
    /\ UNCHANGED <<pc, stored, paramVars, clockVars, viewVars, hostVars, timerVars, now>>

\* mousemove, touchmove
handleInteractionMove(clientX, clientY) ==
    LET currentX == clientX - rect.left
        currentY == clientY - rect.top
        dx == currentX - lastTouchX
        dy == currentY - lastTouchY
        rotationChange == rotationChangeOf(moveAmountOf(dx, dy))
        newRotation == newRotationOf(ParseInt(rotationSlider, RotUnit), dx, rotationChange)
    IN
    /\ pc = "ready"
    /\ IF isDragging
       THEN /\ rotationSlider' \in SliderAssigned(newRotation, 0, 100)
            /\ params' = [params EXCEPT !.rotation = newRotation,
                                        !.rotationSpeed = RotationSpeedOf(newRotation)]
            /\ lastTouchX' = currentX
            /\ lastTouchY' = currentY
            /\ lastPointer' = [x |-> currentX, y |-> currentY]
            /\ UNCHANGED isDragging
       ELSE UNCHANGED <<paramVars, dragVars>>
    /\ lastOp' = "dragmove"
    /\ Draws(0, params, canvas)
    /\ UNCHANGED <<pc, stored, clockVars, viewVars, hostVars, timerVars, now>>

\* an end of interaction that leaves the drag in progress
ignoreInteractionEnd ==
    /\ pc = "ready"
    /\ lastOp' = "dragend"
    /\ Draws(0, params, canvas)
    /\ UNCHANGED <<pc, stored, paramVars, clockVars, dragVars, viewVars, hostVars,
                   timerVars, now>>

\* mouseup, mouseleave, touchend, touchcancel
handleInteractionEnd ==
    /\ pc = "ready"
    /\ isDragging' = FALSE
    /\ lastOp' = "dragend"
    /\ Draws(0, params, canvas)
    /\ UNCHANGED <<pc, stored, paramVars, clockVars, lastTouchX, lastTouchY, lastPointer,
                   viewVars, hostVars, timerVars, now>>

NextDrag ==
    \/ Startup
    \/ \E q \in Pointers : handleInteractionStart(q.x, q.y)
    \/ \E q \in Pointers : handleInteractionMove(q.x, q.y)
    \/ handleInteractionEnd
    \/ \E v \in RotationInputs : RotationSliderInput(v)
    \/ resetSimulation

InitDrag == InitWith(SavedItems, {[clientWidth |-> 800, clientHeight |-> 600]},
                     {DprUnit}, Rects)

SpecDrag == InitDrag /\ [][NextDrag]_vars

-----------------------------------------------------------------------------
(* The rotation of the disk: every handler that sets or reads params.rotation *)

\* a drag of 10 pixels to the right and back
RotationPointers == {[x |-> 150, y |-> 130], [x |-> 160, y |-> 130]}

NextRotation ==
    \/ Startup
    \/ \E v \in RotationInputs : RotationSliderInput(v)
    \/ \E q \in RotationPointers : handleInteractionStart(q.x, q.y)
    \/ \E q \in RotationPointers : handleInteractionMove(q.x, q.y)
    \/ handleInteractionEnd
    \/ toggleSimulation
    \/ \E id \in pendingFrames : animate(id, now + 16)
    \/ resetSimulation

InitRotation == InitWith({NoItem, OneField("rotation", Val(Sample("rotation")))},
                         {[clientWidth |-> 800, clientHeight |-> 600]},
                         {DprUnit}, {[left |-> 0, top |-> 0]})

SpecRotation == InitRotation /\ [][NextRotation]_vars

\* what happens to a simulation while it is paused: a slider change, a drag,
\* a resize event and its measure, an autosave firing
PausedStep ==
    /\ ~isRunning
    /\ \/ RotationSliderInput(0)
       \/ handleInteractionStart(150, 130)
       \/ handleInteractionMove(190, 130)
       \/ handleInteractionEnd
       \/ WindowResize
       \/ ResizeTimerFires
       \/ autoSaveParams(Max(now, autoSave.due))

\* the loop, and the handlers above between its runs
NextPaused ==
    \/ Startup
    \/ PausedStep
    \/ toggleSimulation
    \/ \E id \in pendingFrames : animate(id, now + 16)
    \/ resetSimulation

InitPaused == InitWith({NoItem}, {[clientWidth |-> 800, clientHeight |-> 600]},
                       {DprUnit}, {[left |-> 0, top |-> 0]})

SpecPaused == InitPaused /\ [][NextPaused]_vars

-----------------------------------------------------------------------------
(* Claims about the canvas measure *)

\* a step in which resizeCanvas ran as a listener
MeasureStep ==
    \/ ResizeTimerFires
    \/ OrientationTimerFires
    \/ (VisibilityChange /\ visibilityState' = "visible")

SameAsLastMeasure ==
    /\ measured.w = container.clientWidth
    /\ measured.h = container.clientHeight
    /\ measured.dpr = getDevicePixelRatio

\* C3: a measure with the same host width, height and pixel ratio as the
\* previous measure finds sizeChanged false and changes nothing: the buffer
\* size, the stored logical size and the transform stay and no draw is issued.
C3_RepeatedMeasureIsNoOp ==
    [][(MeasureStep /\ SameAsLastMeasure)
         => (canvas' = canvas /\ ctx' = ctx /\ draws' = 0)]_vars

C3_Witness ==
    /\ lastOp = "measure"
    /\ measured = prevMeasured
    /\ measured.w > 0
    /\ measured.dpr > DprUnit
    /\ draws = 0

\* C4: after every measure the buffer is floor(w * dpr) by floor(h * dpr) and
\* the transform is a scale by that dpr, for the w, h and dpr of that measure.
C4_BufferFollowsEveryMeasure ==
    measured.w # Undefined =>
        /\ canvas.width = FloorDiv(measured.w * measured.dpr, DprUnit)
        /\ canvas.height = FloorDiv(measured.h * measured.dpr, DprUnit)
        /\ ctx.scale = measured.dpr

\* C18: while the buffer has zero area no handler issues a draw call against
\* it: not the measure that found the zero size, nor any handler after it.
C18_NoDrawOnZeroArea ==
    (canvas.width = 0 \/ canvas.height = 0) => draws = 0

-----------------------------------------------------------------------------
(* The whole program *)

Init == InitWith(StartItems \cup SavedItems, HostSizes, PixelRatios, Rects)

Next ==
    \/ Startup
    \/ HostLayout
    \/ WindowResize
    \/ ResizeTimerFires
    \/ handleOrientationChange
    \/ OrientationTimerFires
    \/ VisibilityChange
    \/ BasicControls
    \/ OtherControls
    \/ resetSimulation
    \/ toggleSimulation
    \/ Frame
    \/ Elapse
    \/ \E q \in Pointers : handleInteractionStart(q.x, q.y)
    \/ \E q \in Pointers : handleInteractionMove(q.x, q.y)
    \/ handleInteractionEnd

Spec == Init /\ [][Next]_vars

-----------------------------------------------------------------------------
(* Claims about the frame loop and the disk angle *)

\* C1: in every reachable state diskAngle is finite and 0 <= diskAngle < 2*pi.
C1_DiskAngleInRange ==
    /\ params.diskAngle >= 0
    /\ params.diskAngle < TwoPi

\* C2: every frame computes dt = min((now - lastFrameTime) / 1000, 0.1), so no
\* frame integrates with more than 0.1 s and a gap of 5000 ms gives dt = 0.1 s.
C2_DtIsCappedGap ==
    [][Frame => /\ dt' = Min(now' - lastFrameTime, DtCap)
                /\ dt' <= DtCap
                /\ (now' - lastFrameTime = 5000 => dt' = DtCap)
                /\ params'.diskAngle =
                      JsRem(params.diskAngle
                              + RotationSpeedOf(params.rotation) * dt' * params.timeScale,
                            TwoPi)]_vars

C2_Witness ==
    /\ lastOp = "animate"
    /\ elapsed = 5000
    /\ dt = DtCap
    /\ params.diskAngle > 0

\* a click on the start/pause button that starts, that pauses
StartStep == toggleSimulation /\ ~isRunning
StopStep == toggleSimulation /\ isRunning

\* C14: every start (isRunning false to true) sets lastFrameTime to the current
\* time and only then requests the first frame, so the dt that frame computes
\* at any later time is the time since the start, whatever lastFrameTime was
\* before; lastFrameTime never moves back while running.
C14_StartReseedsFrameTime ==
    [][/\ StartStep =>
            /\ lastFrameTime' = now
            /\ pendingFrames' = {animationFrameId'}
            /\ \A gap \in FrameGaps :
                  CappedDt((now + gap) - lastFrameTime') = CappedDt(gap)
       /\ (isRunning /\ isRunning') => lastFrameTime' >= lastFrameTime
       /\ (Frame /\ lastOp = "toggle") => elapsed' = now' - lastFrameTime]_vars

\* a second start, PauseGap after the last frame ran
C14_Witness ==
    /\ lastOp = "toggle"
    /\ isRunning
    /\ lastFpsUpdateTime = LoadTime + 16
    /\ now = LoadTime + 16 + PauseGap
    /\ lastFrameTime = now
    /\ pendingFrames = {animationFrameId}

\* C15: after a stop and after a reset accumulatedTime = 0, frameCount = 0,
\* fps = 0 and isRunning = false.
C15_StopAndResetClearClock ==
    [][(StopStep \/ resetSimulation) =>
          /\ accumulatedTime' = 0
          /\ frameCount' = 0
          /\ fps' = Fin(0)
          /\ ~isRunning']_vars

\* C16: while isRunning is false the host holds no frame callback, so no frame
\* runs until the next start; the stop itself leaves the parameters, the
\* canvas and the last picture as they were.
C16_StopIsImmediate ==
    /\ [](~isRunning => pendingFrames = {})
    /\ [][/\ Frame => isRunning
          /\ StopStep => /\ animationFrameId' = Null
                          /\ params' = params
                          /\ rendered' = rendered
                          /\ canvas' = canvas /\ ctx' = ctx]_vars

\* a stop after a frame that drew the rotated disk
C16_Witness ==
    /\ lastOp = "toggle"
    /\ ~isRunning
    /\ pendingFrames = {}
    /\ frameSeq = 2
    /\ rendered.disk
    /\ rendered.angle > 0
    /\ rendered = draw(params, canvas)

C23_IntegrationStep ==
    [][\A d \in IntegratorSteps :
          Integrate(d) =>
             /\ params'.rotationSpeed = (params.rotation * 50) \div RotUnit
             /\ params'.diskAngle =
                   (params.diskAngle + params'.rotationSpeed * d * params.timeScale) % TwoPi
             /\ [params' EXCEPT !.diskAngle = 0, !.rotationSpeed = 0]
                   = [params EXCEPT !.diskAngle = 0, !.rotationSpeed = 0]]_vars

\* a step of 0.1 s at rotation 100 that takes the angle past 2 pi
C23_Witness ==
    /\ lastOp = "integrate"
    /\ dt = DtCap
    /\ params.rotation = 100 * RotUnit
    /\ params.rotationSpeed = 5000
    /\ params.timeScale = TsUnit
    /\ params.diskAngle = 4999999

\* C28: at most one frame callback is pending and animationFrameId is its
\* handle: while isRunning is true exactly the callback animationFrameId is
\* pending, and while it is false none is, across starts, pauses, resets and
\* frames.
C28_OneFrameChain ==
    /\ Cardinality(pendingFrames) <= 1
    /\ isRunning => pendingFrames = {animationFrameId}
    /\ ~isRunning => pendingFrames = {}

\* a frame has run and left the latest handle as the only pending callback
C28_Witness ==
    /\ isRunning
    /\ lastOp = "animate"
    /\ frameSeq = MaxFrameSeq
    /\ pendingFrames = {MaxFrameSeq}
    /\ animationFrameId = MaxFrameSeq

\* C31: every dt the integrator is given is >= 0, also in the first frame
\* after a start or a reset, whose timestamp may be earlier than the
\* performance.now() that lastFrameTime was seeded with.
C31_DtIsNeverNegative == dt >= 0

\* C19: a frame computes dt, integrates with that dt and then draws, once
\* each: the picture is that of the integrated parameters, which differ from
\* those before the frame in the disk angle and the rotation speed only.
C19_FrameIsTickIntegrateRender ==
    [][Frame =>
          /\ dt' = Min(elapsed', DtCap)
          /\ lastFrameTime' = now'
          /\ params'.diskAngle =
                JsRem(params.diskAngle
                        + RotationSpeedOf(params.rotation) * dt' * params.timeScale,
                      TwoPi)
          /\ [params' EXCEPT !.diskAngle = 0, !.rotationSpeed = 0]
                = [params EXCEPT !.diskAngle = 0, !.rotationSpeed = 0]
          /\ draws' = 1
          /\ rendered'.disk = (params'.rotation > 0)
          /\ rendered'.angle = IF params'.rotation > 0 THEN params'.diskAngle ELSE 0
          /\ rendered'.radius = params'.mass * params'.zoom]_vars

C19_Witness ==
    /\ lastOp = "animate"
    /\ draws = 1
    /\ dt = 16
    /\ rendered.disk
    /\ params.diskAngle > 0
    /\ rendered.angle = params.diskAngle

\* C20: draw() leaves the drawing transform and the stack of saved states as
\* it found them, for the parameters and the canvas of every reachable state;
\* a handler that draws without measuring leaves the canvas and the context
\* alone, and a frame's draw leaves the parameters as the integration made them.
C20_DrawChangesNoState ==
    /\ [](drawTransform(drawingState(ctx), params, canvas) = drawingState(ctx))
    /\ [][/\ (pc = "ready" /\ draws' > 0) => (canvas' = canvas /\ ctx' = ctx)
          /\ Frame => params' = updateSimulation(params, dt')]_vars

\* a frame drew the disk at an angle above 0 on a scaled context
C20_Witness ==
    /\ lastOp = "animate"
    /\ draws = 1
    /\ rendered.disk
    /\ rendered.angle > 0
    /\ ctx.scale = 2 * DprUnit
    /\ drawTransform(drawingState(ctx), params, canvas) = drawingState(ctx)

-----------------------------------------------------------------------------
(* Claims about the stored record and the autosave timer *)

\* C21: a load that throws (getItem throws or the item is no JSON text) leaves
\* every parameter at its default and the page's start goes on to the first
\* draw; a save or a removal that throws leaves the parameters as the handler
\* made them, the loop running and the autosave timer armed.
C21_StorageFailuresAreNotFatal ==
    [][/\ (Startup /\ loadThrows(stored)) =>
            /\ params' = DefaultParams
            /\ pc' = "ready"
            /\ draws' >= 1
            /\ rendered' = draw(DefaultParams, canvas')
            /\ autoSave'.pending = 1
       /\ (AutoSaveFires /\ "setItem" \in storageThrows) =>
            /\ params' = params
            /\ stored' = stored
            /\ isRunning' = isRunning
            /\ pendingFrames' = pendingFrames
            /\ autoSave'.pending = 1
       /\ (resetSimulation /\ "removeItem" \in storageThrows) =>
            /\ params' = ResetParams
            /\ stored' = stored
            /\ isRunning' = isRunning
            /\ pendingFrames' = pendingFrames
            /\ draws' = 1]_vars

\* the timer fired while running with a setItem that throws, after a start
\* that found an item that is no JSON text
C21_Witness ==
    /\ lastOp = "autosave"
    /\ isRunning
    /\ "setItem" \in storageThrows
    /\ stored = Malformed
    /\ pendingFrames # {}
    /\ autoSave.pending = 1
    /\ params.rotation > 0

-----------------------------------------------------------------------------
(* Claims about the parameter object *)

\* the default record of the specification, as saveToStorage writes a record
DefaultRecord ==
    [f \in FieldNames |->
        CASE f = "mass" -> Val(50)
          [] f = "rotation" -> Val(0)
          [] f = "zoom" -> Val(100)
          [] f = "M" -> Val(1000000)
          [] f = "timeScale" -> Val(TsUnit)
          [] f = "drag" -> Val(2)
          [] f = "trails" -> Val(1)
          [] f = "trailLength" -> Val(50)
          [] f = "seed" -> Val(12345)
          [] f = "particles" -> Val(500)]

\* C5: from any reachable state, resetSimulation followed by the record
\* saveToStorage builds gives the default record, and diskAngle and
\* rotationSpeed are 0.
C5_ResetGivesDefaults ==
    [][resetSimulation => /\ paramsToSave(params') = DefaultRecord
                          /\ params'.diskAngle = 0
                          /\ params'.rotationSpeed = 0]_vars

\* a reset made after frames that integrated a positive dt
C5_Witness ==
    /\ lastOp = "reset"
    /\ paramsToSave(params) = DefaultRecord
    /\ params.diskAngle = 0
    /\ lastFpsUpdateTime > 0
    /\ dt > 0

\* C7 as claimed: every field present in the stored record has the record's
\* value after the load, every absent field its value from before.
C7_PresentFieldsAreTaken ==
    [][(Startup /\ loadFromStorage(stored)) =>
          \A f \in FieldNames :
             paramsToSave(params')[f] =
                IF stored.fields[f].tag = "absent"
                THEN paramsToSave(params)[f] ELSE stored.fields[f]]_vars

\* C7, amended: a field that is absent from the stored record or null in it
\* keeps its value from before the load; any other field has the record's value.
C7_LoadMerges ==
    [][(Startup /\ loadFromStorage(stored)) =>
          \A f \in FieldNames :
             paramsToSave(params')[f] =
                IF stored.fields[f].tag = "val"
                THEN stored.fields[f] ELSE paramsToSave(params)[f]]_vars

C7_Witness ==
    /\ lastOp = "startup"
    /\ stored.kind = "record"
    /\ stored.fields["mass"] = Val(70)
    /\ stored.fields["rotation"].tag = "absent"
    /\ stored.fields["zoom"].tag = "null"
    /\ params.mass = 70
    /\ params.rotation = 0
    /\ params.zoom = 100

\* C8: a direct mass input that is not a finite number above 0 leaves M as it
\* was; a finite input above 0 becomes M; the mass slider stays as it was.
C8_InvalidMassIsRejected ==
    [][\A m \in ActualMassInputs :
          ActualMassInput(m) =>
             /\ params'.mass = params.mass
             /\ params'.M = IF m.k = "fin" /\ m.v > 0 THEN m ELSE params.M]_vars

\* C9: a mass-slider change to v sets mass = v and M = M_before * (v / 50) and
\* changes no other parameter.
C9_MassSliderScalesM ==
    [][\A v \in MassInputs :
          MassSliderInput(v) =>
             /\ params'.mass = v
             /\ CASE params.M.k = "fin" ->
                        params'.M.k = "fin" /\ params'.M.v * 50 = params.M.v * v
                  [] params.M.k = "inf" ->
                        params'.M = IF v = 0 THEN NaN ELSE params.M
                  [] OTHER -> params'.M = NaN
             /\ [params' EXCEPT !.mass = params.mass, !.M = params.M] = params]_vars

C9_Witness ==
    /\ lastOp = "mass"
    /\ params.mass = 100
    /\ params.M = Fin(4000000)
    /\ params.zoom = 200

\* C11: in every reachable state M is finite and above 0, and the Schwarzschild
\* radius computed from it is finite and not negative.
C11_MassIsFinitePositive ==
    /\ params.M.k = "fin"
    /\ params.M.v > 0
    /\ schwarzschildRadius(params).k = "fin"
    /\ schwarzschildRadius(params).v >= 0

\* C12: in every reachable state timeScale is finite and above 0.
C12_TimeScaleIsPositive == params.timeScale > 0

\* C13: after every completed handler (rotation slider change, drag move,
\* load, reset, frame) rotationSpeed = rotation * 0.05, also while paused.
C13_RotationSpeedFollowsRotation ==
    params.rotationSpeed = RotationSpeedOf(params.rotation)

\* a rotation slider change made while paused, after frames have run
C13_Witness ==
    /\ lastOp = "rotation"
    /\ ~isRunning
    /\ lastFpsUpdateTime > 0
    /\ params.rotation = 100 * RotUnit
    /\ params.rotationSpeed = 5000

\* C10: in every reachable state the mass slider value is a whole number in
\* [0,100], the rotation value a whole number in [0,100] and the zoom value a
\* whole number in [10,200].
C10_SliderValuesInDomain ==
    pc = "ready" =>
        /\ params.mass \in 0..100
        /\ params.rotation \in 0..(100 * RotUnit)
        /\ params.rotation % RotUnit = 0
        /\ params.zoom \in 10..200

-----------------------------------------------------------------------------
(* Claims about the drag controller *)

\* C24: isDragging is false at first, true after every drag-start, false after
\* every drag-end, cancel or leave, and no other step changes it; a drag-move
\* received while isDragging is false changes neither the rotation, the
\* rotation speed, the slider nor the last pointer position.
C24_DragLifecycle ==
    /\ ~isDragging
    /\ [][/\ lastOp' = "dragstart" => isDragging'
          /\ lastOp' = "dragend" => ~isDragging'
          /\ lastOp' \notin {"dragstart", "dragend"} => isDragging' = isDragging
          /\ (lastOp' = "dragmove" /\ ~isDragging)
                => UNCHANGED <<params, rotationSlider, lastTouchX, lastTouchY, isDragging>>
       ]_vars

\* a move received after a drag has ended
C24_Witness ==
    /\ lastOp = "dragmove"
    /\ ~isDragging
    /\ lastTouchX # Undefined

C26_RadiusFollowsSliderOnly ==
    /\ [](rendered # NoPicture => rendered.radius = params.mass * params.zoom)
    /\ [][lastOp' = "actualMass" =>
             /\ [params' EXCEPT !.M = params.M] = params
             /\ draws' = 1
             /\ rendered' = rendered
       ]_vars

\* a physical mass of 2.0e6 entered while the slider stays at 50: the picture
\* keeps the radius of the slider's 50
C26_Witness ==
    /\ lastOp = "actualMass"
    /\ params.M = Fin(2000000)
    /\ params.mass = 50
    /\ rendered.radius = 50 * params.zoom
    /\ rendered # NoPicture

\* C27: while isRunning is false no step but reset changes diskAngle (reset
\* sets it to 0): the start of the page, slider changes, drag steps, resize
\* events and measures, and autosave firings all leave it as it is.
C27_PausedAngleIsFrozen ==
    [][/\ (~isRunning /\ lastOp' # "reset") => params'.diskAngle = params.diskAngle
       /\ lastOp' = "reset" => params'.diskAngle = 0
      ]_vars

\* a drag move that turns the disk's rotation up while the simulation is
\* paused at an angle reached by earlier frames
C27_Witness ==
    /\ ~isRunning
    /\ lastOp = "dragmove"
    /\ params.rotation > 10
    /\ params.diskAngle > 0
    /\ pendingFrames = {}

\* C29: neither DOMContentLoaded listener stops at a read of state it has not
\* initialised yet: the first does not leave the page at its throw and the
\* second reaches the registration of its handlers and the first draw.
C29_StartupRunsToCompletion == pc \notin {"second", "threw"}

\* C32: after every drag move that acted, params.rotation is the value the
\* next move starts from (the integer it parses from the slider), so that the
\* increments of successive moves add up.
C32_DragStaysInStep ==
    (lastOp = "dragmove" /\ isDragging) =>
        ParseInt(rotationSlider, RotUnit) = params.rotation

\* C17: while paused, every handler that changes mass, rotation or zoom draws
\* the new state exactly once before it returns.
C17_PausedMutationIsRendered ==
    [][(/\ pc = "ready"
        /\ ~isRunning
        /\ \/ params'.mass # params.mass
           \/ params'.rotation # params.rotation
           \/ params'.zoom # params.zoom)
         => (draws' = 1 /\ rendered' = draw(params', canvas'))]_vars

\* C6: every drag move while dragging sets rotation to
\* clamp(rotation + (dx > 0 ? 0.5 * m : -0.5 * m), 0, 100), dx and m measured
\* from the pointer's last position to its new one, both relative to the canvas.
C6_DragMoveFollowsPointer ==
    [][\A q \in Pointers :
          (isDragging /\ handleInteractionMove(q.x, q.y)) =>
             LET dx == (q.x - rect.left) - lastPointer.x
                 dy == (q.y - rect.top) - lastPointer.y
             IN params'.rotation =
                   newRotationOf(params.rotation, dx,
                                 rotationChangeOf(moveAmountOf(dx, dy)))]_vars

====
